---- MODULE Spec2Model ----
(***************************************************************************)
(* The git-filter-server session: the pkt-line codec (ext.rs), the payload *)
(* streams WritePkt / ReadPktUntilFlush (util.rs) and the protocol state   *)
(* machine GitFilterServer::communicate (lib.rs), driven by an arbitrary   *)
(* client (the frames on the input) and an arbitrary Processor.            *)
(*                                                                         *)
(* Byte strings are not enumerated.  A text payload is the string it       *)
(* spells (plus whether it ends in "\n" and is valid UTF-8); a binary      *)
(* payload is an interval [from, from+len) of the stream it was cut from,  *)
(* so that lengths keep their real sizes (MAX_PKT_SIZE = 65516).           *)
(***************************************************************************)
EXTENDS Integers, Sequences, FiniteSets, TLC

\* ext.rs:5
MAX_PKT_SIZE == 65516

----------------------------------------------------------------------------
(* Bounds of the model *)

\* write calls a Processor makes in one process / get_scheduled call
MaxWrites == 2
\* payload frames carrying data that the client sends in one request
MaxPayloadFrames == 2
\* distinct entries the client sends in one capability or command block
MaxEntries == 3

----------------------------------------------------------------------------
(* The texts that appear on the wire, with their length in bytes and their *)
(* split at the first "=" (TLC has no string operations, so what           *)
(* str::len and str::strip_prefix compute is tabulated for these texts).   *)

ClientTexts ==
    { "git-filter-client", "version=2",
      "capability=clean", "capability=smudge", "capability=delay",
      "capability=other",
      "command=clean", "command=smudge", "command=list_available_blobs",
      "command=fetch", "pathname=a.txt", "can-delay=1", "can-delay=0" }

ServerTexts ==
    { "git-filter-server", "version=2",
      "capability=clean", "capability=smudge", "capability=delay",
      "status=success", "status=delayed", "status=error" }

Texts == ClientTexts \cup ServerTexts

\* the empty string, and strings named by their length in bytes, around the
\* largest that pkt_text_write puts in one frame
LongTexts == { "", "a*65510", "a*65511", "a*65512", "a*65515", "a*65516" }

\* what the client sends in a capability block: the three capabilities the
\* server knows, and two entries it does not
CapabilityTexts ==
    { "capability=clean", "capability=smudge", "capability=delay",
      "capability=other", "version=2" }

\* what the client sends in a command block: the commands the server knows
\* and one it does not, the two keys it reads, and two entries it skips
CommandTexts ==
    { "command=clean", "command=smudge", "command=list_available_blobs",
      "command=fetch", "pathname=a.txt", "can-delay=1", "can-delay=0",
      "capability=other" }

StrLen(s) ==
    CASE s = "git-filter-client" -> 17
      [] s = "git-filter-server" -> 17
      [] s = "version=2" -> 9
      [] s = "capability=clean" -> 16
      [] s = "capability=smudge" -> 17
      [] s = "capability=delay" -> 16
      [] s = "capability=other" -> 16
      [] s = "command=clean" -> 13
      [] s = "command=smudge" -> 14
      [] s = "command=list_available_blobs" -> 28
      [] s = "command=fetch" -> 13
      [] s = "pathname=a.txt" -> 14
      [] s = "can-delay=1" -> 11
      [] s = "can-delay=0" -> 11
      [] s = "status=success" -> 14
      [] s = "status=delayed" -> 14
      [] s = "status=error" -> 12
      [] s = "" -> 0
      [] s = "a*65510" -> 65510
      [] s = "a*65511" -> 65511
      [] s = "a*65512" -> 65512
      [] s = "a*65515" -> 65515
      [] s = "a*65516" -> 65516

\* <<key including "=", rest>> of a text; <<"", s>> when it has no "="
Split(s) ==
    CASE s = "version=2" -> <<"version=", "2">>
      [] s = "capability=clean" -> <<"capability=", "clean">>
      [] s = "capability=smudge" -> <<"capability=", "smudge">>
      [] s = "capability=delay" -> <<"capability=", "delay">>
      [] s = "capability=other" -> <<"capability=", "other">>
      [] s = "command=clean" -> <<"command=", "clean">>
      [] s = "command=smudge" -> <<"command=", "smudge">>
      [] s = "command=list_available_blobs" -> <<"command=", "list_available_blobs">>
      [] s = "command=fetch" -> <<"command=", "fetch">>
      [] s = "pathname=a.txt" -> <<"pathname=", "a.txt">>
      [] s = "can-delay=1" -> <<"can-delay=", "1">>
      [] s = "can-delay=0" -> <<"can-delay=", "0">>
      [] s = "status=success" -> <<"status=", "success">>
      [] s = "status=delayed" -> <<"status=", "delayed">>
      [] s = "status=error" -> <<"status=", "error">>
      [] OTHER -> <<"", s>>

\* Option<T>
None == [some |-> FALSE, v |-> ""]
Some(x) == [some |-> TRUE, v |-> x]

\* str::strip_prefix, for the prefixes the server strips ("command=", "pathname=")
strip_prefix(s, prefix) ==
    IF Split(s)[1] = prefix THEN Some(Split(s)[2]) ELSE None

Min(a, b) == IF a <= b THEN a ELSE b

----------------------------------------------------------------------------
(* Byte strings and frames *)

\* the bytes of `s` followed by "\n" (pkt_text_write's `string`)
TextBytes(s) == [s |-> s, nl |-> TRUE, utf8 |-> TRUE, from |-> 0, len |-> StrLen(s) + 1]
\* `n` bytes of a binary stream, starting at its position `from`
StreamBytes(from, n) == [s |-> "", nl |-> FALSE, utf8 |-> TRUE, from |-> from, len |-> n]
\* an empty Vec<u8>
Empty == StreamBytes(0, 0)

\* What is on the wire for one frame: `hdr_bytes` of the 4 header bytes are
\* there before the stream ends, `hex` says whether they are hex digits, `len`
\* is the 16-bit number they spell, `avail` of the payload bytes are there
\* before the stream ends, `data` is the payload.
Frame(len, data) ==
    [hdr_bytes |-> 4, hex |-> TRUE, len |-> len, avail |-> data.len, data |-> data]

\* the flush packet "0000"
FlushPkt == Frame(0, Empty)

----------------------------------------------------------------------------
(* ext.rs: WriteExt *)

\* slice::chunks(size): the i-th chunk of `data`
Chunk(data, size, i) ==
    LET n == Min(size, data.len - (i - 1) * size) IN
    IF data.len <= size THEN data
    ELSE [s |-> "", nl |-> (data.nl /\ i * size >= data.len), utf8 |-> data.utf8,
          from |-> data.from + (i - 1) * size, len |-> n]

\* number of chunks of slice::chunks(size)
NChunks(data, size) == (data.len + size - 1) \div size

\* The frames pkt_bin_write emits for `data`, in order.  The header spells
\* chunk.len() as u16 + 4.
pkt_bin_write(data) ==
    LET size == MAX_PKT_SIZE - 4 IN
    [i \in 1..NChunks(data, size) |->
        LET chunk == Chunk(data, size, i) IN
        Frame(((chunk.len % 65536) + 4) % 65536, chunk)]

\* pkt_text_write without string.push('\n')
pkt_text_write_no_newline(s) ==
    pkt_bin_write([TextBytes(s) EXCEPT !.nl = FALSE, !.len = @ - 1])

\* pkt_text_write: the text with "\n" pushed, through pkt_bin_write
pkt_text_write(s) == pkt_bin_write(TextBytes(s))

\* pkt_end: the literal "0000"
pkt_end == <<FlushPkt>>

----------------------------------------------------------------------------
(* ext.rs: ReadExt.  A read returns the set of outcomes the builds of the  *)
(* crate can produce: [tag, kind, out], `out` being the caller's buffer    *)
(* after the call and, for Some, the slice returned.                       *)

ROk(tag, out) == [tag |-> tag, kind |-> "-", out |-> out]
RErr(kind, out) == [tag |-> "Err", kind |-> kind, out |-> out]
RPanic(out) == [tag |-> "Panic", kind |-> "-", out |-> out]

pkt_bin_read(f, out) ==
    IF f.hdr_bytes < 4 THEN {RErr("UnexpectedEof", out)}
    ELSE IF ~f.hex THEN {RErr("InvalidData", out)}
    ELSE IF f.len = 0 THEN {ROk("None", out)}
    ELSE IF f.len < 4
    \* `len -= 4` on a usize below 4: a panic where overflow checks are on,
    \* else it wraps to at least 2^64 - 3, which is above MAX_PKT_SIZE
    THEN {RPanic(out), RErr("InvalidData", out)}
    ELSE LET len == f.len - 4 IN
         IF len > MAX_PKT_SIZE THEN {RErr("InvalidData", out)}
         ELSE IF len = 0 THEN {RErr("InvalidData", out)}
         ELSE LET resized == [f.data EXCEPT !.len = len] IN
              IF f.avail < len THEN {RErr("UnexpectedEof", resized)}
              ELSE {ROk("Some", resized)}

pkt_text_read(f, out) ==
    { IF r.tag # "Some" THEN r
      ELSE IF ~r.out.nl THEN RErr("InvalidData", r.out)
      ELSE IF ~r.out.utf8 THEN RErr("InvalidData", r.out)
      ELSE r
      : r \in pkt_bin_read(f, out) }

\* the &str a successful pkt_text_read returns: the payload without its "\n"
TextOf(r) == r.out.s

----------------------------------------------------------------------------
(* The output sink.  `out` is the sequence of frames written, `cap` the    *)
(* number of frames the sink still accepts before its writes fail (-1: it  *)
(* never fails), `err` that a write has failed and the `?` on it has made  *)
(* the caller return: the writes after it do not happen.                   *)

Sink(o, cap) == [out |-> o, cap |-> cap, err |-> FALSE]

\* write_all of each of `frames`, in order, each result under `?`
write_all(w, frames) ==
    IF w.err THEN w
    ELSE IF w.cap >= 0 /\ Len(frames) > w.cap
    THEN [out |-> w.out \o SubSeq(frames, 1, w.cap), cap |-> 0, err |-> TRUE]
    ELSE [out |-> w.out \o frames,
          cap |-> IF w.cap < 0 THEN w.cap ELSE w.cap - Len(frames),
          err |-> FALSE]

----------------------------------------------------------------------------
(* util.rs: WritePkt = [buffer, written] over the sink *)

\* WritePkt::new
WritePkt_new == [buffer |-> Empty, written |-> 0]

\* no WritePkt in scope
NoWriter == [buffer |-> Empty, written |-> -1]

\* flush_buf without its truncate(0): the buffer keeps what was written out
flush_buf_keeps_buffer(wp, w) ==
    LET w1 == write_all(w, pkt_bin_write(wp.buffer)) IN
    IF w1.err THEN [wp |-> wp, w |-> w1, ok |-> FALSE]
    ELSE [wp |-> [wp EXCEPT !.written = wp.written + wp.buffer.len], w |-> w1, ok |-> TRUE]

\* WritePkt::flush_buf: [wp, w, ok]
flush_buf(wp, w) ==
    LET w1 == write_all(w, pkt_bin_write(wp.buffer)) IN
    IF w1.err THEN [wp |-> wp, w |-> w1, ok |-> FALSE]
    ELSE [wp |-> [buffer |-> Empty, written |-> wp.written + wp.buffer.len],
          w |-> w1, ok |-> TRUE]

\* the while loop of WritePkt::write, `rem` bytes left of a buf whose next
\* byte is byte `pos` of the writer's stream
RECURSIVE write_loop(_, _, _, _)
write_loop(wp, w, pos, rem) ==
    IF rem = 0 THEN [wp |-> wp, w |-> w, ok |-> TRUE]
    ELSE LET to_write == Min(MAX_PKT_SIZE - wp.buffer.len, rem)
             buffer == IF wp.buffer.len = 0 THEN StreamBytes(pos, to_write)
                       ELSE [wp.buffer EXCEPT !.len = @ + to_write]
             wp1 == [wp EXCEPT !.buffer = buffer]
         IN IF buffer.len = MAX_PKT_SIZE
            THEN LET fl == flush_buf(wp1, w) IN
                 IF ~fl.ok THEN fl
                 ELSE write_loop(fl.wp, fl.w, pos + to_write, rem - to_write)
            ELSE write_loop(wp1, w, pos + to_write, rem - to_write)

\* WritePkt::write(buf), buf being bytes [pos, pos+n) of the stream
WritePkt_write(wp, w, pos, n) ==
    IF n = 0 THEN [wp |-> wp, w |-> w, ok |-> TRUE]
    ELSE write_loop(wp, w, pos, n)

\* WritePkt::flush
WritePkt_flush(wp, w) == flush_buf(wp, w)

\* Drop for WritePkt panics
WritePkt_drop_panics(wp) == wp.buffer.len > 0

----------------------------------------------------------------------------
(* util.rs: ReadPktUntilFlush = [read_bytes, buffer, offset, eof] *)

\* ReadPktUntilFlush::new
ReadPktUntilFlush_new == [read_bytes |-> 0, buffer |-> Empty, offset |-> 0, eof |-> FALSE]

\* ReadPktUntilFlush::finished
finished(rd) == rd.eof

\* the copy with the offset left out of the count of what is left
read_copy_forgets_offset(rd, k, took) ==
    LET read_bytes == Min(rd.buffer.len, k) IN
    [rd |-> [rd EXCEPT !.offset = @ + read_bytes, !.read_bytes = @ + read_bytes],
     tag |-> "Ok", kind |-> "-", n |-> read_bytes, took |-> took, io |-> "-"]

\* the copy at the end of ReadPktUntilFlush::read, into a buf of `k` bytes
read_copy(rd, k, took) ==
    LET read_bytes == Min(rd.buffer.len - rd.offset, k) IN
    [rd |-> [rd EXCEPT !.offset = @ + read_bytes, !.read_bytes = @ + read_bytes],
     tag |-> "Ok", kind |-> "-", n |-> read_bytes, took |-> took, io |-> "-"]

\* ReadPktUntilFlush::read(buf) with buf.len() = k, `f` being the next frame
\* of the input: the set of [rd, tag, kind, n, took, io], `took` saying whether
\* the call read from the input and `io` the error kind of that read.
ReadPktUntilFlush_read(rd, f, k) ==
    IF rd.eof
    THEN {[rd |-> rd, tag |-> "Ok", kind |-> "-", n |-> 0, took |-> FALSE, io |-> "-"]}
    ELSE IF rd.offset > rd.buffer.len
    \* self.buffer[self.offset..] past the end of the Vec
    THEN {[rd |-> rd, tag |-> "Panic", kind |-> "-", n |-> 0, took |-> FALSE, io |-> "-"]}
    ELSE IF rd.buffer.len - rd.offset = 0
    THEN { CASE r.tag = "Some" ->
                  IF r.out.len = 0
                  THEN [rd |-> [rd EXCEPT !.buffer = r.out], tag |-> "Panic",
                        kind |-> "-", n |-> 0, took |-> TRUE, io |-> "-"]
                  ELSE read_copy([rd EXCEPT !.buffer = r.out, !.offset = 0], k, TRUE)
             [] r.tag = "None" ->
                  [rd |-> [rd EXCEPT !.buffer = r.out, !.eof = TRUE], tag |-> "Ok",
                   kind |-> "-", n |-> 0, took |-> TRUE, io |-> "-"]
             [] OTHER ->
                  [rd |-> [rd EXCEPT !.buffer = r.out], tag |-> r.tag,
                   kind |-> r.kind, n |-> 0, took |-> TRUE, io |-> r.kind]
           : r \in pkt_bin_read(f, rd.buffer) }
    ELSE {read_copy(rd, k, FALSE)}

\* Read::read_exact into a one-byte buf: one read call; Ok(0) is the
\* UnexpectedEof "failed to fill whole buffer"
read_exact_1(rd, f) ==
    { IF rr.tag = "Ok" /\ rr.n = 0
      THEN [rr EXCEPT !.tag = "Err", !.kind = "UnexpectedEof"]
      ELSE rr
      : rr \in ReadPktUntilFlush_read(rd, f, 1) }

----------------------------------------------------------------------------
(* The client: the frames a read of the input can meet *)

\* the input ends after `h` bytes of a length header (0: at a frame boundary)
EofFrame(h) == [hdr_bytes |-> h, hex |-> TRUE, len |-> 0, avail |-> 0, data |-> Empty]
\* four header bytes that are not hex digits
BadHexFrame == [hdr_bytes |-> 4, hex |-> FALSE, len |-> 0, avail |-> 0, data |-> Empty]
\* a header spelling `len` with no payload that could follow it
HeaderFrame(len) == [hdr_bytes |-> 4, hex |-> TRUE, len |-> len, avail |-> 0, data |-> Empty]
\* a frame whose payload is cut one byte short by the end of the input
TruncatedFrame(data) == [Frame(data.len + 4, data) EXCEPT !.avail = data.len - 1]
\* a well-formed frame of `n` payload bytes that are no text line
DataFrame(n) == Frame(n + 4, StreamBytes(0, n))
\* a well-formed text frame
TextFrame(s) == Frame(StrLen(s) + 1 + 4, TextBytes(s))
\* a frame ending in "\n" whose bytes are not UTF-8
BadUtf8Frame == Frame(2 + 4, [s |-> "", nl |-> TRUE, utf8 |-> FALSE, from |-> 0, len |-> 2])

\* payload sizes of the client's data frames
PayloadLens == {2}
\* sizes of the buffers a Processor reads into
ReadBufLens == {1, 2}
\* sizes of the slices a Processor writes
WriteLens == {1, 65515}

\* frames no read accepts: the input ends inside the header or the payload, or
\* the header is no length a frame can have
MalformedFrames ==
    { EofFrame(2), BadHexFrame, HeaderFrame(1), HeaderFrame(3), HeaderFrame(4),
      HeaderFrame(65533), TruncatedFrame(StreamBytes(0, 1)),
      TruncatedFrame(StreamBytes(0, 2)) }

\* what the client can send where the server reads text, `texts` being the
\* texts of that part of the session
ClientFrames(texts) ==
    {FlushPkt, EofFrame(0), BadUtf8Frame} \cup { TextFrame(s) : s \in texts }
        \cup { DataFrame(n) : n \in PayloadLens } \cup MalformedFrames

\* what the client can send as the payload of a request
PayloadFrames ==
    {FlushPkt, EofFrame(0)} \cup { DataFrame(n) : n \in PayloadLens }
        \cup MalformedFrames

----------------------------------------------------------------------------
(* lib.rs: the pieces of GitFilterServer::communicate_internal *)

\* communicate: what the caller gets for communicate_internal's result
communicate(r) == IF r = "UnexpectedEof" THEN "Ok" ELSE r

\* the three reads of the client hello must return these, in order
client_hello == <<Some("git-filter-client"), Some("version=2"), None>>

\* the server hello without its version line
server_hello_no_version == pkt_text_write("git-filter-server") \o pkt_end

\* the server hello
server_hello ==
    pkt_text_write("git-filter-server") \o pkt_text_write("version=2") \o pkt_end

\* the match on one entry of the capability block
capability_entry(flags, cmd) ==
    CASE cmd = "capability=clean" -> [flags EXCEPT !.filter = TRUE]
      [] cmd = "capability=smudge" -> [flags EXCEPT !.smudge = TRUE]
      [] cmd = "capability=delay" -> [flags EXCEPT !.delay = TRUE]
      [] OTHER -> flags

\* the capability reply with capability=delay advertised unasked
capability_reply_delay_unasked(flags, sc, ss) ==
    (IF flags.filter /\ sc THEN pkt_text_write("capability=clean") ELSE <<>>)
    \o (IF flags.smudge /\ ss THEN pkt_text_write("capability=smudge") ELSE <<>>)
    \o pkt_text_write("capability=delay")
    \o pkt_end

\* the capability reply, sc and ss being supports_processing(Clean / Smudge)
capability_reply(flags, sc, ss) ==
    (IF flags.filter /\ sc THEN pkt_text_write("capability=clean") ELSE <<>>)
    \o (IF flags.smudge /\ ss THEN pkt_text_write("capability=smudge") ELSE <<>>)
    \o (IF flags.delay THEN pkt_text_write("capability=delay") ELSE <<>>)
    \o pkt_end

\* the locals of one iteration of the command loop, as it starts
new_request == [command |-> None, pathname |-> None, can_delay |-> FALSE]

\* the chain on one entry with can-delay matched by its key alone
command_entry_any_can_delay(req, input) ==
    IF strip_prefix(input, "command=").some
    THEN [req EXCEPT !.command = Some(strip_prefix(input, "command=").v)]
    ELSE IF strip_prefix(input, "pathname=").some
    THEN [req EXCEPT !.pathname = Some(strip_prefix(input, "pathname=").v)]
    ELSE IF strip_prefix(input, "can-delay=").some
    THEN [req EXCEPT !.can_delay = TRUE]
    ELSE req

\* the if / else if chain on one entry of a command block
command_entry(req, input) ==
    IF strip_prefix(input, "command=").some
    THEN [req EXCEPT !.command = Some(strip_prefix(input, "command=").v)]
    ELSE IF strip_prefix(input, "pathname=").some
    THEN [req EXCEPT !.pathname = Some(strip_prefix(input, "pathname=").v)]
    ELSE IF input = "can-delay=1"
    THEN [req EXCEPT !.can_delay = TRUE]
    ELSE req

\* the dispatch without the check of the pathname
dispatch_pathname_optional(req) ==
    IF ~req.command.some THEN "missing command"
    ELSE IF req.command.v \in {"clean", "smudge"} THEN "request"
    ELSE IF req.command.v = "list_available_blobs" THEN "list"
    ELSE "unknown command"

\* the dispatch with an unknown command word taken as list_available_blobs
dispatch_unknown_is_list(req) ==
    IF ~req.command.some THEN "missing command"
    ELSE IF req.command.v \in {"clean", "smudge"}
    THEN IF req.pathname.some THEN "request" ELSE "missing pathname"
    ELSE "list"

\* what the match on the command word, and the checks before and in it, lead
\* to: "missing command", "missing pathname", "unknown command" (the three
\* parse errors), "list" or "request"
dispatch(req) ==
    IF ~req.command.some THEN "missing command"
    ELSE IF req.command.v \in {"clean", "smudge"}
    THEN IF ~req.pathname.some THEN "missing pathname" ELSE "request"
    ELSE IF req.command.v = "list_available_blobs" THEN "list"
    ELSE "unknown command"

\* ProcessingType of the command word
process_type(t) == IF t = "clean" THEN "Clean" ELSE "Smudge"

\* the sub-case of a request with should_delay's answer ignored
request_case_never_delays(waiting, can_delay, sd) ==
    IF waiting THEN "resolving" ELSE "processing"

\* the sub-case of a request: "resolving" (delayed delivery), "scheduling"
\* or "processing"; sd is what should_delay returns when it is called
request_case(waiting, can_delay, sd) ==
    IF waiting THEN "resolving"
    ELSE IF can_delay /\ sd THEN "scheduling"
    ELSE "processing"

\* should_delay is evaluated (the && short-circuits on can_delay)
calls_should_delay(waiting, can_delay) == ~waiting /\ can_delay

\* status=success and the flush after it, written before the Processor runs
status_success == pkt_text_write("status=success") \o pkt_end
\* after process / get_scheduled returned Ok: the two closing flushes
close_success == pkt_end \o pkt_end
\* the error envelope without the flush that closes the payload
close_error_unclosed == pkt_text_write("status=error") \o pkt_end

\* after process / get_scheduled returned Err
close_error == pkt_end \o pkt_text_write("status=error") \o pkt_end
\* after schedule_process returned Ok
status_delayed == pkt_text_write("status=delayed") \o pkt_end
\* after schedule_process returned Err
status_error == pkt_text_write("status=error") \o pkt_end

----------------------------------------------------------------------------
(* The state of one session *)

VARIABLES
    pc,                 \* where communicate_internal stands: "hello", "caps",
                        \* "loop" (top of the command loop), "command" (inside a
                        \* command block), "resolving" (the read_exact of delayed
                        \* delivery), "scheduling", "processing", "get_scheduled"
                        \* (inside the Processor call of that name)
    internal,           \* "running", or what communicate_internal returned: "Ok",
                        \* "UnexpectedEof", "InvalidData", "Other", or "Panic"
    ret,                \* "running", or what communicate returned
    flags,              \* filter, smudge, delay of the capability block
    waiting_for_blobs,
    req,                \* command, pathname, can_delay of this iteration
    process_input,      \* the ReadPktUntilFlush of this request
    process_output,     \* the WritePkt of this request
    out,                \* the frames on the output that Git has not read yet
    sink_cap,           \* frames the output still accepts (-1: all)
    input_end,          \* "open", or how the input ended: "boundary" (between
                        \* two frames) or "midframe" (inside a frame)
    hello,              \* the frames read as the client hello
    offered,            \* the texts read in the capability block
    seen,               \* the texts read in this command block
    closed,             \* the flush that ends this command block has been read
    calls,              \* the Processor calls since Git last read the output
    call,               \* wrote: bytes the Processor call in flight has written;
                        \* nwrites: its write calls
    payload,            \* data frames read from the payload of this request
    consumed,           \* Git has read the handshake and the capability reply
    codec               \* a call of the codec outside a session (SpecCodec,
                        \* SpecStream): its input, what it wrote, what it read

vars ==
    << pc, internal, ret, flags, waiting_for_blobs, req, process_input,
       process_output, out, sink_cap, input_end, hello, offered, seen, closed,
       calls, call, payload, consumed, codec >>

\* no ReadPktUntilFlush in scope
NoReader == [read_bytes |-> -1, buffer |-> Empty, offset |-> 0, eof |-> FALSE]

NoCall == [wrote |-> 0, nwrites |-> 0]

Call(op, arg, r) == [op |-> op, arg |-> arg, ret |-> r]

BoolStr(b) == IF b THEN "true" ELSE "false"

\* no result of a read yet
NoResult == [tag |-> "-", kind |-> "-", out |-> Empty]

\* no call of the codec outside the session
NoCodec ==
    [phase |-> "none", kind |-> "-", data |-> Empty, wire |-> <<>>, got |-> NoResult,
     at |-> 0, reads |-> 0, exact |-> TRUE]

\* the state as one record, so that each step is a function of it
Cur ==
    [ pc |-> pc, internal |-> internal, ret |-> ret, flags |-> flags,
      waiting_for_blobs |-> waiting_for_blobs, req |-> req,
      process_input |-> process_input, process_output |-> process_output,
      out |-> out, sink_cap |-> sink_cap, input_end |-> input_end,
      hello |-> hello, offered |-> offered, seen |-> seen, closed |-> closed,
      calls |-> calls, call |-> call, payload |-> payload, consumed |-> consumed,
      codec |-> codec ]

Apply(s) ==
    /\ pc' = s.pc
    /\ internal' = s.internal
    /\ ret' = s.ret
    /\ flags' = s.flags
    /\ waiting_for_blobs' = s.waiting_for_blobs
    /\ req' = s.req
    /\ process_input' = s.process_input
    /\ process_output' = s.process_output
    /\ out' = s.out
    /\ sink_cap' = s.sink_cap
    /\ input_end' = s.input_end
    /\ hello' = s.hello
    /\ offered' = s.offered
    /\ seen' = s.seen
    /\ closed' = s.closed
    /\ calls' = s.calls
    /\ call' = s.call
    /\ payload' = s.payload
    /\ consumed' = s.consumed
    /\ codec' = s.codec

InitState ==
    [ pc |-> "hello", internal |-> "running", ret |-> "running",
      flags |-> [filter |-> FALSE, smudge |-> FALSE, delay |-> FALSE],
      waiting_for_blobs |-> FALSE, req |-> new_request,
      process_input |-> NoReader, process_output |-> NoWriter,
      out |-> <<>>, sink_cap |-> -1, input_end |-> "open",
      hello |-> <<>>, offered |-> {}, seen |-> {}, closed |-> FALSE, calls |-> <<>>,
      call |-> NoCall, payload |-> 0, consumed |-> FALSE, codec |-> NoCodec ]

\* communicate_internal returns r, and communicate what it makes of it
Fin(s, r) == [s EXCEPT !.internal = r, !.ret = communicate(r)]

\* the frames written to the output, each under `?`
Write(s, frames) ==
    LET w == write_all(Sink(s.out, s.sink_cap), frames)
        s1 == [s EXCEPT !.out = w.out, !.sink_cap = w.cap]
    IN IF w.err THEN Fin(s1, "Other") ELSE s1

\* a read of the input met frame f and returned `kind`: the input has ended if
\* the read ran into its end
Met(s, f, kind) ==
    IF kind = "UnexpectedEof" /\ s.input_end = "open"
    THEN [s EXCEPT !.input_end = IF f.hdr_bytes = 0 THEN "boundary" ELSE "midframe"]
    ELSE s

\* the frames the next read of the input can meet
NextFrames(texts) == IF input_end # "open" THEN {EofFrame(0)} ELSE ClientFrames(texts)

\* the frames the next read of a payload can meet
NextPayloadFrames == IF input_end # "open" THEN {EofFrame(0)} ELSE PayloadFrames

\* the last Processor call returned r
Returned(s, r) == [s EXCEPT !.calls[Len(s.calls)].ret = r]

----------------------------------------------------------------------------
(* lib.rs 33-49: the client hello, and the server hello after its flush *)

hello_step(s, f, r) ==
    LET s1 == Met([s EXCEPT !.hello = Append(@, f)], f, r.kind)
        got == IF r.tag = "Some" THEN Some(TextOf(r)) ELSE None
    IN IF r.tag = "Err" THEN Fin(s1, r.kind)
       ELSE IF r.tag = "Panic" THEN Fin(s1, "Panic")
       ELSE IF got # client_hello[Len(s1.hello)] THEN Fin(s1, "InvalidData")
       ELSE IF Len(s1.hello) < 3 THEN s1
       ELSE LET s2 == Write(s1, server_hello) IN
            IF s2.internal # "running" THEN s2 ELSE [s2 EXCEPT !.pc = "caps"]

ReadClientHello ==
    /\ internal = "running" /\ pc = "hello"
    /\ \E f \in NextFrames(ClientTexts) : \E r \in pkt_text_read(f, Empty) :
          Apply(hello_step(Cur, f, r))

----------------------------------------------------------------------------
(* lib.rs 50-74: the capability block, and the reply after its flush *)

caps_step(s, f, r, sc, ss) ==
    LET s1 == Met(s, f, r.kind) IN
    IF r.tag = "Err" THEN Fin(s1, r.kind)
    ELSE IF r.tag = "Panic" THEN Fin(s1, "Panic")
    ELSE IF r.tag = "Some"
    THEN [s1 EXCEPT !.flags = capability_entry(@, TextOf(r)),
                    !.offered = @ \cup {f.data.s}]
    ELSE LET asked ==
                 (IF s.flags.filter
                  THEN <<Call("supports_processing", "Clean", BoolStr(sc))>> ELSE <<>>)
                 \o (IF s.flags.smudge
                     THEN <<Call("supports_processing", "Smudge", BoolStr(ss))>> ELSE <<>>)
             s2 == Write([s1 EXCEPT !.calls = @ \o asked],
                         capability_reply(s.flags, sc, ss))
         IN IF s2.internal # "running" THEN s2
            \* the block of filter, smudge and delay ends here
            ELSE [s2 EXCEPT !.pc = "loop", !.waiting_for_blobs = FALSE,
                            !.flags = InitState.flags]

ReadCapability ==
    /\ internal = "running" /\ pc = "caps"
    /\ \E f \in NextFrames(CapabilityTexts) : \E r \in pkt_text_read(f, Empty) :
          /\ r.tag = "Some" => Cardinality(offered \cup {f.data.s}) <= MaxEntries
          /\ \E sc \in (IF r.tag = "None" /\ flags.filter THEN BOOLEAN ELSE {FALSE}) :
             \E ss \in (IF r.tag = "None" /\ flags.smudge THEN BOOLEAN ELSE {FALSE}) :
                Apply(caps_step(Cur, f, r, sc, ss))

----------------------------------------------------------------------------
(* lib.rs 75-100, 133, 149-155, 180-185: one read of a command block, and  *)
(* on its flush the dispatch up to the Processor call or the payload read  *)

\* the top of the loop with waiting_for_blobs declared inside the loop
loop_top_resets_wait(s) ==
    [s EXCEPT !.req = new_request, !.waiting_for_blobs = FALSE]

\* the top of the loop: command, pathname and can_delay start afresh
loop_top(s) == [s EXCEPT !.req = new_request]

\* Git reads what the server wrote before it sends its next command block
git_reads(s) ==
    [s EXCEPT !.out = <<>>, !.calls = <<>>, !.hello = <<>>, !.offered = {},
              !.process_input = NoReader, !.process_output = NoWriter,
              !.call = NoCall, !.payload = 0, !.consumed = TRUE]

\* the arm of list_available_blobs answering with an empty list
list_step_answers(s) ==
    LET s1 == Write(s, status_success) IN
    IF s1.internal # "running" THEN s1
    ELSE [s1 EXCEPT !.pc = "loop", !.waiting_for_blobs = TRUE,
                    !.calls = Append(@, Call("switch_to_wait", "-", "()"))]

\* the arm of list_available_blobs
list_step(s) ==
    [s EXCEPT !.pc = "loop", !.waiting_for_blobs = TRUE,
              !.calls = Append(@, Call("switch_to_wait", "-", "()"))]

\* the request phase up to its first blocking point; sd is should_delay's answer
request_step(s, sd) ==
    LET ty == process_type(s.req.command.v)
        which == request_case(s.waiting_for_blobs, s.req.can_delay, sd)
        s1 == [s EXCEPT !.process_input = ReadPktUntilFlush_new,
                        !.calls = IF calls_should_delay(s.waiting_for_blobs, s.req.can_delay)
                                  THEN Append(@, Call("should_delay", ty, BoolStr(sd)))
                                  ELSE @]
    IN IF which = "resolving" THEN [s1 EXCEPT !.pc = "resolving"]
       ELSE IF which = "scheduling"
       THEN [s1 EXCEPT !.pc = "scheduling",
                       !.calls = Append(@, Call("schedule_process", ty, "pending"))]
       ELSE LET s2 == Write(s1, status_success) IN
            IF s2.internal # "running" THEN s2
            ELSE [s2 EXCEPT !.pc = "processing", !.process_output = WritePkt_new,
                            !.call = NoCall,
                            !.calls = Append(@, Call("process", ty, "pending"))]

command_step(s, f, r, sd) ==
    LET top == s.pc = "loop"
        s0 == IF top THEN loop_top(s) ELSE s
        s1 == Met(IF top /\ r.tag \in {"Some", "None"}
                  THEN [git_reads(s0) EXCEPT !.seen = {}, !.closed = FALSE]
                  ELSE s0, f, r.kind)
    IN IF r.tag = "Err" THEN Fin(s1, r.kind)
       ELSE IF r.tag = "Panic" THEN Fin(s1, "Panic")
       ELSE IF r.tag = "Some"
       THEN [s1 EXCEPT !.pc = "command", !.req = command_entry(@, TextOf(r)),
                       !.seen = @ \cup {f.data.s}]
       ELSE LET d == dispatch(s1.req)
                s2 == [s1 EXCEPT !.closed = TRUE]
            IN IF d \in {"missing command", "missing pathname", "unknown command"}
               THEN Fin(s2, "InvalidData")
               ELSE IF d = "list"
               THEN list_step(s2)
               ELSE request_step(s2, sd)

ReadCommand ==
    /\ internal = "running" /\ pc \in {"loop", "command"}
    /\ \E f \in NextFrames(CommandTexts) : \E r \in pkt_text_read(f, Empty) :
          /\ r.tag = "Some" =>
                Cardinality((IF pc = "loop" THEN {} ELSE seen) \cup {f.data.s}) <= MaxEntries
          /\ \E sd \in (IF r.tag = "None" /\ pc = "command" /\ dispatch(req) = "request"
                           /\ calls_should_delay(waiting_for_blobs, req.can_delay)
                        THEN BOOLEAN ELSE {FALSE}) :
                Apply(command_step(Cur, f, r, sd))

----------------------------------------------------------------------------
(* lib.rs 100-114: delayed delivery up to the call of get_scheduled *)

resolve_step(s, f, rr) ==
    LET s1 == Met([s EXCEPT !.process_input = rr.rd], f, rr.io) IN
    IF rr.tag = "Panic" THEN Fin(s1, "Panic")
    \* map_err(|_| parse_error!("delayed blob should have no data"))?
    ELSE IF rr.tag = "Err" THEN Fin(s1, "InvalidData")
    \* assert!(process_input.finished())
    ELSE IF ~finished(s1.process_input) THEN Fin(s1, "Panic")
    ELSE LET s2 == Write(s1, status_success) IN
         IF s2.internal # "running" THEN s2
         ELSE [s2 EXCEPT !.pc = "get_scheduled", !.process_output = WritePkt_new,
                         !.call = NoCall,
                         !.calls = Append(@, Call("get_scheduled",
                                                  process_type(s.req.command.v), "pending"))]

ReadDelayedPayload ==
    /\ internal = "running" /\ pc = "resolving"
    /\ \E f \in NextPayloadFrames : \E rr \in read_exact_1(process_input, f) :
          Apply(resolve_step(Cur, f, rr))

----------------------------------------------------------------------------
(* The Processor inside process, schedule_process or get_scheduled: it     *)
(* reads its input, writes and flushes its output, and returns, in any     *)
(* order and with any result.                                              *)

proc_read(s, f, rr) ==
    LET s1 == Met([s EXCEPT !.process_input = rr.rd,
                            !.payload = IF rr.took /\ rr.tag = "Ok" /\ rr.n > 0
                                        THEN @ + 1 ELSE @], f, rr.io)
    IN IF rr.tag = "Panic" THEN Fin(s1, "Panic") ELSE s1

ProcessorRead ==
    /\ internal = "running" /\ pc \in {"scheduling", "processing"}
    /\ \E f \in NextPayloadFrames : \E k \in ReadBufLens :
       \E rr \in ReadPktUntilFlush_read(process_input, f, k) :
          /\ (rr.took /\ rr.tag = "Ok" /\ rr.n > 0) => payload < MaxPayloadFrames
          /\ Apply(proc_read(Cur, f, rr))

proc_write(s, n) ==
    LET res == WritePkt_write(s.process_output, Sink(s.out, s.sink_cap), s.call.wrote, n) IN
    [s EXCEPT !.process_output = res.wp, !.out = res.w.out, !.sink_cap = res.w.cap,
              !.call = [wrote |-> IF res.ok THEN @.wrote + n ELSE @.wrote,
                        nwrites |-> @.nwrites + 1]]

ProcessorWrite ==
    /\ internal = "running" /\ pc \in {"processing", "get_scheduled"}
    /\ call.nwrites < MaxWrites
    /\ \E n \in WriteLens : Apply(proc_write(Cur, n))

proc_flush(s) ==
    LET res == WritePkt_flush(s.process_output, Sink(s.out, s.sink_cap)) IN
    [s EXCEPT !.process_output = res.wp, !.out = res.w.out, !.sink_cap = res.w.cap]

ProcessorFlush ==
    /\ internal = "running" /\ pc \in {"processing", "get_scheduled"}
    /\ Apply(proc_flush(Cur))

----------------------------------------------------------------------------
(* lib.rs 115-132, 137-148, 156-178: after the Processor call returned *)

\* the assert!(process_input.finished()) that ends the request, then the loop
end_request(s) ==
    IF s.internal # "running" THEN s
    ELSE IF ~finished(s.process_input) THEN Fin(s, "Panic")
    ELSE [s EXCEPT !.pc = "loop"]

\* schedule_process returned, with the `return Ok(())` of the Err arm left out
scheduled_step_goes_on(s, ok) ==
    end_request(Write(Returned(s, IF ok THEN "Ok" ELSE "Err"),
                      IF ok THEN status_delayed ELSE status_error))

\* schedule_process returned
scheduled_step(s, ok) ==
    IF ok THEN end_request(Write(Returned(s, "Ok"), status_delayed))
    ELSE LET s1 == Write(Returned(s, "Err"), status_error) IN
         IF s1.internal # "running" THEN s1 ELSE Fin(s1, "Ok")

\* process or get_scheduled returned
processed_step(s, ok) ==
    LET fl == WritePkt_flush(s.process_output, Sink(s.out, s.sink_cap))
        s1 == [Returned(s, IF ok THEN "Ok" ELSE "Err")
                 EXCEPT !.process_output = fl.wp, !.out = fl.w.out, !.sink_cap = fl.w.cap]
    IN \* process_output.flush()? failed: the WritePkt is dropped as it is
       IF ~fl.ok THEN Fin(s1, IF WritePkt_drop_panics(fl.wp) THEN "Panic" ELSE "Other")
       \* drop(process_output)
       ELSE IF WritePkt_drop_panics(fl.wp) THEN Fin(s1, "Panic")
       ELSE IF ok THEN end_request(Write(s1, close_success))
       ELSE LET s2 == Write(s1, close_error) IN
            IF s2.internal # "running" THEN s2 ELSE Fin(s2, "Ok")

return_step(s, ok) ==
    IF s.pc = "scheduling" THEN scheduled_step(s, ok) ELSE processed_step(s, ok)

ProcessorReturn ==
    /\ internal = "running" /\ pc \in {"scheduling", "processing", "get_scheduled"}
    /\ \E ok \in BOOLEAN : Apply(return_step(Cur, ok))

----------------------------------------------------------------------------

Init ==
    /\ pc = InitState.pc
    /\ internal = InitState.internal
    /\ ret = InitState.ret
    /\ flags = InitState.flags
    /\ waiting_for_blobs = InitState.waiting_for_blobs
    /\ req = InitState.req
    /\ process_input = InitState.process_input
    /\ process_output = InitState.process_output
    /\ out = InitState.out
    /\ sink_cap = InitState.sink_cap
    /\ input_end = InitState.input_end
    /\ hello = InitState.hello
    /\ offered = InitState.offered
    /\ seen = InitState.seen
    /\ closed = InitState.closed
    /\ calls = InitState.calls
    /\ call = InitState.call
    /\ payload = InitState.payload
    /\ consumed = InitState.consumed
    /\ codec = InitState.codec

Next ==
    \/ ReadClientHello
    \/ ReadCapability
    \/ ReadCommand
    \/ ReadDelayedPayload
    \/ ProcessorRead
    \/ ProcessorWrite
    \/ ProcessorFlush
    \/ ProcessorReturn

Spec == Init /\ [][Next]_vars

----------------------------------------------------------------------------
(* What the claims speak of *)

\* the last Processor call made, if any
HasCall == calls # <<>>
LastCall == calls[Len(calls)]

\* the session has ended (communicate_internal returned or panicked)
Ended == internal # "running"

\* f is a complete binary payload frame: its header spells its payload's
\* length plus 4, and the payload is 1 to MAX_PKT_SIZE bytes
IsPayloadFrame(f) ==
    /\ f.hdr_bytes = 4 /\ f.hex
    /\ f.data.len >= 1 /\ f.data.len <= MAX_PKT_SIZE
    /\ f.len = f.data.len + 4 /\ f.avail = f.data.len
    /\ f.data.s = ""

\* frames are payload frames that carry, in order and once each, exactly the
\* bytes [0, n) of the stream they were cut from
Carries(frames, n) ==
    /\ \A i \in 1..Len(frames) : IsPayloadFrame(frames[i])
    /\ IF frames = <<>> THEN n = 0
       ELSE /\ frames[1].data.from = 0
            /\ \A i \in 1..(Len(frames) - 1) :
                  frames[i + 1].data.from = frames[i].data.from + frames[i].data.len
            /\ frames[Len(frames)].data.from + frames[Len(frames)].data.len = n

\* where the bytes of the last of these frames end in their stream
CarriedBy(frames) ==
    IF frames = <<>> THEN 0
    ELSE frames[Len(frames)].data.from + frames[Len(frames)].data.len

\* the this-many last frames of the output
LastFrames(k) == SubSeq(out, Len(out) - k + 1, Len(out))

----------------------------------------------------------------------------
\* C1 (as the claim states it): in delayed delivery (waiting_for_blobs), once
\* the server has read the flush of a request's empty payload, the session has
\* not ended in an error and the output starts with status=success, flush; and
\* once get_scheduled has returned Ok the output is exactly status=success,
\* flush, the payload frames of what get_scheduled wrote, flush, flush.
C1_DelayedDelivery ==
    /\ (waiting_for_blobs /\ pc \in {"resolving", "get_scheduled"}
           /\ finished(process_input) /\ process_input.read_bytes = 0)
        => /\ ret \notin {"InvalidData", "Other", "Panic"}
           /\ Len(out) >= 2
           /\ SubSeq(out, 1, 2) = <<TextFrame("status=success"), FlushPkt>>
    /\ (HasCall /\ LastCall.op = "get_scheduled" /\ LastCall.ret = "Ok")
        => /\ Len(out) >= 4
           /\ LastFrames(2) = <<FlushPkt, FlushPkt>>
           /\ Carries(SubSeq(out, 3, Len(out) - 2), call.wrote)

----------------------------------------------------------------------------
\* C2: while process runs inline the output of the request is status=success,
\* flush, then payload frames only, carrying a prefix of the bytes process
\* wrote; and once process has returned Ok it is exactly status=success, flush,
\* the payload frames carrying exactly the bytes process wrote, flush, flush.
C2_InlineSuccess ==
    /\ (HasCall /\ LastCall.op = "process")
        => /\ Len(out) >= 2
           /\ SubSeq(out, 1, 2) = <<TextFrame("status=success"), FlushPkt>>
    /\ (HasCall /\ LastCall.op = "process" /\ LastCall.ret = "pending")
        => /\ Carries(SubSeq(out, 3, Len(out)), CarriedBy(SubSeq(out, 3, Len(out))))
           /\ CarriedBy(SubSeq(out, 3, Len(out))) <= call.wrote
    /\ (HasCall /\ LastCall.op = "process" /\ LastCall.ret = "Ok")
        => /\ Len(out) >= 4
           /\ LastFrames(2) = <<FlushPkt, FlushPkt>>
           /\ Carries(SubSeq(out, 3, Len(out) - 2), call.wrote)

\* process wrote MAX_PKT_SIZE bytes in two calls and returned Ok, and the
\* request is over
C2_Witness ==
    /\ pc = "loop" /\ HasCall /\ LastCall.op = "process" /\ LastCall.ret = "Ok"
    /\ call.wrote = MAX_PKT_SIZE /\ Len(out) = 6

----------------------------------------------------------------------------
\* C3: once process has returned Err during inline processing, the output of
\* the request is status=success, flush, payload frames carrying exactly the
\* bytes process wrote before failing, then flush, status=error, flush, and
\* the session is over, so nothing is written after them.
C3_InlineFailure ==
    (HasCall /\ LastCall.op = "process" /\ LastCall.ret = "Err")
        => /\ Len(out) >= 5
           /\ SubSeq(out, 1, 2) = <<TextFrame("status=success"), FlushPkt>>
           /\ LastFrames(3) = <<FlushPkt, TextFrame("status=error"), FlushPkt>>
           /\ Carries(SubSeq(out, 3, Len(out) - 3), call.wrote)
           /\ Ended

\* process returned Err after writing one byte
C3_Witness ==
    /\ HasCall /\ LastCall.op = "process" /\ LastCall.ret = "Err"
    /\ call.wrote = 1 /\ Len(out) = 6

----------------------------------------------------------------------------
\* C4: once a Processor call (process, schedule_process, get_scheduled) has
\* returned Err, it is the last Processor call of the session, the output
\* ends with status=error, flush, communicate_internal and communicate have
\* returned Ok, and the server stands where the call returned: it has read no
\* further command block.
C4_ProcessorErrorEndsCleanly ==
    \A i \in 1..Len(calls) :
        calls[i].ret = "Err"
            => /\ i = Len(calls)
               /\ calls[i].op \in {"process", "schedule_process", "get_scheduled"}
               /\ internal = "Ok" /\ ret = "Ok"
               /\ pc \in {"processing", "scheduling", "get_scheduled"}
               /\ Len(out) >= 2
               /\ LastFrames(2) = <<TextFrame("status=error"), FlushPkt>>

\* schedule_process returned Err
C4_Witness ==
    /\ HasCall /\ LastCall.op = "schedule_process" /\ LastCall.ret = "Err"
    /\ ret = "Ok"

----------------------------------------------------------------------------
\* the server is in the request phase of a clean or smudge command block
InRequest == pc \in {"resolving", "scheduling", "processing", "get_scheduled"}

\* should_delay was called for this request, and what it answered
AskedShouldDelay == \E i \in 1..Len(calls) : calls[i].op = "should_delay"
ShouldDelaySaid(b) ==
    \E i \in 1..Len(calls) : calls[i].op = "should_delay" /\ calls[i].ret = BoolStr(b)

\* the request carries can-delay=1 and should_delay answered true for it
DelayedRequest == InRequest /\ "can-delay=1" \in seen /\ ShouldDelaySaid(TRUE)

----------------------------------------------------------------------------
\* C6 (as the claim states it): in every state of the request phase of a
\* command block without a can-delay=1 entry, should_delay has not been called,
\* process has been called and the response starts with status=success, flush.
C6_Original ==
    (InRequest /\ "can-delay=1" \notin seen)
        => /\ ~AskedShouldDelay
           /\ HasCall /\ LastCall.op = "process"
           /\ Len(out) >= 2
           /\ SubSeq(out, 1, 2) = <<TextFrame("status=success"), FlushPkt>>

\* C6 (amended): for a command block without a can-delay=1 entry should_delay
\* is never called; and when no list_available_blobs command came before
\* (waiting_for_blobs is false) its request is processed inline: process is
\* the one Processor call made and the response starts with status=success,
\* flush.  After list_available_blobs the request is a delayed delivery.
C6_NoCanDelayIsInline ==
    /\ "can-delay=1" \notin seen => ~AskedShouldDelay
    /\ (InRequest /\ "can-delay=1" \notin seen /\ ~waiting_for_blobs)
        => /\ pc = "processing"
           /\ Len(calls) = 1 /\ LastCall.op = "process"
           /\ Len(out) >= 2
           /\ SubSeq(out, 1, 2) = <<TextFrame("status=success"), FlushPkt>>
    /\ (InRequest /\ "can-delay=1" \notin seen /\ waiting_for_blobs)
        => pc \in {"resolving", "get_scheduled"}

\* a request whose block has can-delay=0 but not can-delay=1 is in process
C6_Witness ==
    /\ pc = "processing" /\ ~Ended /\ ~waiting_for_blobs
    /\ "can-delay=0" \in seen /\ "can-delay=1" \notin seen

----------------------------------------------------------------------------
\* the command block read to its flush names clean or smudge and nothing else
\* as its command, and has no pathname= entry
CleanOrSmudgeBlock ==
    /\ \E e \in seen : e \in {"command=clean", "command=smudge"}
    /\ \A e \in seen : Split(e)[1] = "command=" => e \in {"command=clean", "command=smudge"}
NoPathnameBlock ==
    closed /\ CleanOrSmudgeBlock /\ \A e \in seen : Split(e)[1] # "pathname="

----------------------------------------------------------------------------
\* the frames read in the hello were all there to read: the input did not end
\* in them, and none has a length header of 1 to 3 (less than the header's
\* own four bytes)
HelloOnFrames ==
    /\ input_end = "open"
    /\ \A i \in 1..Len(hello) : ~(hello[i].hex /\ hello[i].len \in 1..3)

----------------------------------------------------------------------------
\* supports_processing(ty) was called and returned true
Supports(ty) ==
    \E i \in 1..Len(calls) : calls[i] = Call("supports_processing", ty, "true")

\* what the reply must advertise for what the client offered
Advertised ==
    { c \in offered :
        \/ c = "capability=clean" /\ Supports("Clean")
        \/ c = "capability=smudge" /\ Supports("Smudge")
        \/ c = "capability=delay" }

\* the capability reply stands on the output, after the server hello
Replied == ~consumed /\ pc \notin {"hello", "caps"}
Reply == SubSeq(out, 4, Len(out))

\* C9: the reply to the capability block is one text frame for each of
\* capability=clean (if offered and supports_processing(Clean)),
\* capability=smudge (if offered and supports_processing(Smudge)) and
\* capability=delay (if offered), each once, no other frame, and then one
\* flush; supports_processing is asked only about what was offered.
C9_CapabilityReply ==
    Replied
        => /\ Len(Reply) = Cardinality(Advertised) + 1
           /\ Reply[Len(Reply)] = FlushPkt
           /\ \A i \in 1..(Len(Reply) - 1) : \E c \in Advertised : Reply[i] = TextFrame(c)
           /\ \A c \in Advertised : \E i \in 1..(Len(Reply) - 1) : Reply[i] = TextFrame(c)
           /\ \A i \in 1..Len(calls) :
                 calls[i].op = "supports_processing"
                    => \/ calls[i].arg = "Clean" /\ "capability=clean" \in offered
                       \/ calls[i].arg = "Smudge" /\ "capability=smudge" \in offered

\* clean, smudge and an unknown capability were offered, the Processor
\* supports clean only, and the reply is capability=clean, flush
C9_Witness ==
    /\ Replied /\ pc = "loop"
    /\ offered = {"capability=clean", "capability=smudge", "capability=other"}
    /\ Supports("Clean") /\ ~Supports("Smudge")
    /\ Reply = <<TextFrame("capability=clean"), FlushPkt>>

----------------------------------------------------------------------------
\* C10 (as the claim states it): whenever the input ended exactly between two
\* frames and communicate has returned, it has returned Ok.
C10_CleanEndOfInput ==
    (input_end = "boundary" /\ Ended /\ internal # "Panic") => ret = "Ok"

----------------------------------------------------------------------------
\* C11 (as the claim states it): whenever the input ended inside a frame
\* (after part of a length header, or after fewer payload bytes than the
\* header announced) and communicate has returned, it has returned an error,
\* not Ok.
C11_MidFrameEofIsError ==
    (input_end = "midframe" /\ ret # "running") => ret # "Ok"

----------------------------------------------------------------------------
\* the command words the server knows
KnownCommands == {"clean", "smudge", "list_available_blobs"}

\* the command= entries of the command block
CommandEntries == { e \in seen : Split(e)[1] = "command=" }

\* the command block read to its flush has no command= entry, or its command
\* word (at the block's flush, pc = "command", the one of its last command=
\* entry) is none the server knows
BadCommandBlock ==
    /\ closed
    /\ \/ CommandEntries = {}
       \/ \A e \in CommandEntries : Split(e)[2] \notin KnownCommands
       \/ pc = "command" /\ ~req.command.some
       \/ pc = "command" /\ req.command.v \notin KnownCommands

\* C12: a command block without a command= entry, or whose command word is
\* not clean, smudge or list_available_blobs, makes communicate return a parse
\* error at the block's flush; no Processor operation was called and no frame
\* written since the block began.  The command word is None exactly when the
\* block has no command= entry, and else is the word of one of them.
C12_BadCommandIsParseError ==
    /\ BadCommandBlock
        => /\ internal = "InvalidData" /\ ret = "InvalidData"
           /\ pc \in {"loop", "command"}
           /\ calls = <<>> /\ out = <<>>
    /\ (closed /\ pc = "command")
        => /\ req.command.some <=> CommandEntries # {}
           /\ req.command.some
                => \E e \in CommandEntries : Split(e)[2] = req.command.v

\* a block of command=fetch and pathname=a.txt was rejected
C12_Witness ==
    /\ closed /\ seen = {"command=fetch", "pathname=a.txt"}
    /\ ret = "InvalidData"

----------------------------------------------------------------------------
\* a list_available_blobs command has just been dispatched: its block is read
\* to the flush and switch_to_wait is the last Processor call
ListDispatched ==
    /\ closed /\ "command=list_available_blobs" \in seen
    /\ req.command = Some("list_available_blobs")
    /\ HasCall /\ LastCall.op = "switch_to_wait"
    /\ pc = "loop"

\* C13: waiting_for_blobs is false until the command loop starts (in the hello
\* and the capability block, and at the first arrival at the loop); a step
\* makes it true only by dispatching a list_available_blobs command; and no
\* step makes it false again.
C13_WaitingIsMonotone ==
    /\ [](pc \in {"hello", "caps"} => ~waiting_for_blobs)
    /\ [][ /\ (pc = "caps" /\ pc' = "loop") => ~waiting_for_blobs'
           /\ (~waiting_for_blobs /\ waiting_for_blobs') => ListDispatched'
           /\ waiting_for_blobs => waiting_for_blobs' ]_vars

\* after list_available_blobs a clean command block has been read, and the
\* server is in its request phase with waiting_for_blobs still true
C13_Witness ==
    /\ waiting_for_blobs /\ pc = "resolving" /\ ~Ended
    /\ "command=clean" \in seen

----------------------------------------------------------------------------
\* C14: no session calls get_available; and the step that reads the flush of
\* a list_available_blobs command block writes nothing, creates no reader or
\* writer and reads no payload, calls switch_to_wait once and nothing else,
\* sets waiting_for_blobs, and leaves the server running at the top of the
\* loop, where the next thing it does is read a command block.
C14_ListAvailableBlobs ==
    /\ [](\A i \in 1..Len(calls) : calls[i].op # "get_available")
    /\ [][ (~closed /\ closed' /\ req.command = Some("list_available_blobs"))
            => /\ out' = out /\ out = <<>>
               /\ calls' = Append(calls, Call("switch_to_wait", "-", "()"))
               /\ Len(calls') = 1
               /\ waiting_for_blobs'
               /\ pc' = "loop" /\ internal' = "running" /\ ret' = "running"
               /\ process_input' = NoReader /\ process_output' = NoWriter
               /\ payload' = 0 /\ input_end' = input_end ]_vars

\* a block of command=list_available_blobs alone has been dispatched
C14_Witness ==
    /\ ListDispatched /\ ~Ended /\ waiting_for_blobs
    /\ seen = {"command=list_available_blobs"} /\ out = <<>>

----------------------------------------------------------------------------
(* ext.rs on its own: one call of pkt_bin_write or pkt_text_write on a      *)
(* writer that accepts everything, then one call of pkt_bin_read or         *)
(* pkt_text_read on what was written; or one call of pkt_bin_read on a      *)
(* frame given as it is on the wire.                                        *)

\* lengths of the byte sequences written: the small ones, and those around
\* the chunk size of pkt_bin_write and MAX_PKT_SIZE
BinLens == (0..8) \cup (65508..65524)

\* the length headers of the frames given to pkt_bin_read as they are
HeaderLens == (0..8) \cup {65519, 65520, 65521, 65535}

CodecInput(kind, data, wire, phase) ==
    [NoCodec EXCEPT !.phase = phase, !.kind = kind, !.data = data, !.wire = wire]

CodecInputs ==
    { CodecInput("bin", StreamBytes(0, n), <<>>, "input") : n \in BinLens }
    \cup { CodecInput("text", TextBytes(s), <<>>, "input") : s \in Texts \cup LongTexts }
    \cup { CodecInput("frame", Empty, <<HeaderFrame(h)>>, "written") : h \in HeaderLens }
    \cup { CodecInput("frame", Empty, <<f>>, "written") :
             f \in {BadHexFrame, EofFrame(0), EofFrame(2), DataFrame(1), BadUtf8Frame,
                    TruncatedFrame(StreamBytes(0, 2))} }

\* the next frame of what was written, or the end of the input after it
WireHead == IF codec.wire = <<>> THEN EofFrame(0) ELSE codec.wire[1]

InitCodec ==
    /\ pc = "codec"
    /\ internal = InitState.internal
    /\ ret = InitState.ret
    /\ flags = InitState.flags
    /\ waiting_for_blobs = InitState.waiting_for_blobs
    /\ req = InitState.req
    /\ process_input = InitState.process_input
    /\ process_output = InitState.process_output
    /\ out = InitState.out
    /\ sink_cap = InitState.sink_cap
    /\ input_end = InitState.input_end
    /\ hello = InitState.hello
    /\ offered = InitState.offered
    /\ seen = InitState.seen
    /\ closed = InitState.closed
    /\ calls = InitState.calls
    /\ call = InitState.call
    /\ payload = InitState.payload
    /\ consumed = InitState.consumed
    /\ codec \in CodecInputs

BinWrite ==
    /\ pc = "codec" /\ codec.phase = "input" /\ codec.kind = "bin"
    /\ Apply([Cur EXCEPT !.codec.wire = pkt_bin_write(codec.data),
                         !.codec.phase = "written"])

TextWrite ==
    /\ pc = "codec" /\ codec.phase = "input" /\ codec.kind = "text"
    /\ Apply([Cur EXCEPT !.codec.wire = pkt_text_write(codec.data.s),
                         !.codec.phase = "written"])

BinRead ==
    /\ pc = "codec" /\ codec.phase = "written" /\ codec.kind \in {"bin", "frame"}
    /\ \E r \in pkt_bin_read(WireHead, Empty) :
          Apply([Cur EXCEPT !.codec.got = r, !.codec.phase = "read"])

TextRead ==
    /\ pc = "codec" /\ codec.phase = "written" /\ codec.kind = "text"
    /\ \E r \in pkt_text_read(WireHead, Empty) :
          Apply([Cur EXCEPT !.codec.got = r, !.codec.phase = "read"])

NextCodec ==
    \/ BinWrite
    \/ TextWrite
    \/ BinRead
    \/ TextRead

SpecCodec == InitCodec /\ [][NextCodec]_vars

----------------------------------------------------------------------------
\* C15 (as the claim states it): for every byte sequence b of 1 to
\* MAX_PKT_SIZE bytes, pkt_bin_write(b) has written one frame, and one
\* pkt_bin_read of what was written has returned Some(b).
C15_BinaryRoundTrip ==
    (codec.kind = "bin" /\ codec.data.len >= 1 /\ codec.data.len <= MAX_PKT_SIZE)
        => /\ codec.phase # "input" => Len(codec.wire) = 1
           /\ codec.phase = "read" => codec.got = ROk("Some", codec.data)

----------------------------------------------------------------------------
\* C16 (as the claim states it): for every string s, of any length,
\* pkt_text_write(s) followed by one pkt_text_read of what was written
\* returns Some(s).
C16_Original ==
    (codec.kind = "text" /\ codec.phase = "read")
        => codec.got.tag = "Some" /\ TextOf(codec.got) = codec.data.s

\* C16 (amended): for every string s of at most MAX_PKT_SIZE - 4 - 1 bytes
\* (s and its newline fit the one chunk that pkt_bin_write puts in a frame),
\* pkt_text_write(s) writes one frame and one pkt_text_read of what was
\* written returns Some(s), without the added newline.
C16_TextRoundTrip ==
    (codec.kind = "text" /\ StrLen(codec.data.s) + 1 <= MAX_PKT_SIZE - 4)
        => /\ codec.phase # "input" => Len(codec.wire) = 1
           /\ codec.phase = "read"
                => /\ codec.got.tag = "Some" /\ TextOf(codec.got) = codec.data.s
                   /\ codec.got.out.len = StrLen(codec.data.s) + 1

\* the longest string that fits one frame has made the round trip
C16_Witness ==
    /\ codec.kind = "text" /\ codec.phase = "read"
    /\ codec.data.s = "a*65511" /\ codec.got.tag = "Some"

----------------------------------------------------------------------------
\* C18 (as the claim states it): pkt_bin_read of a frame whose length header
\* is 0001, 0002, 0003 or 0004 returns a parse error (and nothing else: no
\* panic, no read of a payload).
C18_ShortHeaders ==
    (codec.kind = "frame" /\ codec.phase = "read"
        /\ codec.wire[1].hdr_bytes = 4 /\ codec.wire[1].hex
        /\ codec.wire[1].len \in 1..4)
        => codec.got = RErr("InvalidData", Empty)

----------------------------------------------------------------------------
(* util.rs on its own: a byte sequence is written through a WritePkt in any *)
(* number of write calls, of any of StreamWriteLens bytes, with flush calls *)
(* in between; the WritePkt is flushed and one flush frame is written; then *)
(* what was written is read through a ReadPktUntilFlush, with buffers of    *)
(* any of StreamBufLens bytes, until it is finished.  codec.data is what    *)
(* the reads have returned so far, codec.at the next frame to read, and     *)
(* codec.exact says that every read returned Ok and the bytes that follow   *)
(* those returned before.                                                   *)

\* read calls made on the ReadPktUntilFlush
MaxReads == 6

\* sizes of the write calls: none, small, and around MAX_PKT_SIZE
StreamWriteLens == {0, 1, 65515, 65516, 65517}

\* sizes of the read buffers
StreamBufLens == {0, 1, 65512, 65516, 70000}

InitStream ==
    /\ pc = "stream"
    /\ internal = InitState.internal
    /\ ret = InitState.ret
    /\ flags = InitState.flags
    /\ waiting_for_blobs = InitState.waiting_for_blobs
    /\ req = InitState.req
    /\ process_input = InitState.process_input
    /\ process_output = WritePkt_new
    /\ out = InitState.out
    /\ sink_cap = InitState.sink_cap
    /\ input_end = InitState.input_end
    /\ hello = InitState.hello
    /\ offered = InitState.offered
    /\ seen = InitState.seen
    /\ closed = InitState.closed
    /\ calls = InitState.calls
    /\ call = InitState.call
    /\ payload = InitState.payload
    /\ consumed = InitState.consumed
    /\ codec = [NoCodec EXCEPT !.phase = "writing", !.kind = "stream"]

StreamWrite ==
    /\ pc = "stream" /\ codec.phase = "writing"
    /\ call.nwrites < MaxWrites
    /\ \E n \in StreamWriteLens : Apply(proc_write(Cur, n))

StreamFlush ==
    /\ pc = "stream" /\ codec.phase = "writing"
    /\ Apply(proc_flush(Cur))

\* flush of the writer, its release, one flush frame; then the reader is made
stream_close(s) ==
    LET s1 == Write(proc_flush(s), pkt_end) IN
    [s1 EXCEPT !.process_output = NoWriter, !.process_input = ReadPktUntilFlush_new,
               !.codec.phase = "reading", !.codec.at = 1]

StreamClose ==
    /\ pc = "stream" /\ codec.phase = "writing"
    /\ Apply(stream_close(Cur))

\* the frame a read of what was written meets next
StreamHead == IF codec.at > Len(out) THEN EofFrame(0) ELSE out[codec.at]

\* where in the stream the bytes start that the read returned
ReturnedFrom(rr) == rr.rd.buffer.from + rr.rd.offset - rr.n

stream_read(s, rr) ==
    [s EXCEPT !.process_input = rr.rd,
              !.codec.at = IF rr.took THEN @ + 1 ELSE @,
              !.codec.reads = @ + 1,
              !.codec.exact = /\ @
                              /\ rr.tag = "Ok"
                              /\ rr.n > 0 => ReturnedFrom(rr) = s.codec.data.len,
              !.codec.data = IF rr.tag = "Ok" THEN StreamBytes(0, @.len + rr.n) ELSE @,
              !.codec.phase = IF rr.tag # "Ok" THEN "failed"
                              ELSE IF finished(rr.rd) THEN "done" ELSE "reading"]

StreamRead ==
    /\ pc = "stream" /\ codec.phase = "reading"
    /\ codec.reads < MaxReads
    /\ \E k \in StreamBufLens :
       \E rr \in ReadPktUntilFlush_read(process_input, StreamHead, k) :
          Apply(stream_read(Cur, rr))

NextStream ==
    \/ StreamWrite
    \/ StreamFlush
    \/ StreamClose
    \/ StreamRead

SpecStream == InitStream /\ [][NextStream]_vars

----------------------------------------------------------------------------
\* C17: whatever the write calls and the read buffers, every read of what was
\* written returns Ok and the bytes that follow those returned before, never
\* more than were written; the writer is empty once flushed; and when the
\* reader reports finished, the reads have returned exactly the bytes
\* written, and every frame written, the flush frame last, has been read.
C17_StreamRoundTrip ==
    /\ codec.phase \in {"reading", "done", "failed"}
        => /\ codec.exact /\ codec.phase # "failed"
           /\ codec.data.len <= call.wrote
           /\ out # <<>> /\ out[Len(out)] = FlushPkt
           /\ \A i \in 1..(Len(out) - 1) : IsPayloadFrame(out[i])
    /\ codec.phase = "done"
        => /\ finished(process_input)
           /\ codec.data = StreamBytes(0, call.wrote)
           /\ process_input.read_bytes = call.wrote
           /\ codec.at = Len(out) + 1

\* MAX_PKT_SIZE + 1 bytes, written in two calls, have made the round trip in
\* three frames, the first read with a buffer smaller than it
C17_Witness ==
    /\ codec.phase = "done" /\ call.wrote = MAX_PKT_SIZE + 1 /\ call.nwrites = 2
    /\ Len(out) = 4 /\ codec.reads = 5

----------------------------------------------------------------------------
\* C19 (as the claim states it): once the Processor call of a request phase
\* (process, schedule_process or get_scheduled) has returned, Ok or Err, with
\* the reader of the request not finished, the server has failed the
\* assertion on it: it has neither gone on nor returned normally.
C19_ReaderDrained ==
    (HasCall /\ LastCall.op \in {"process", "schedule_process", "get_scheduled"}
        /\ LastCall.ret \in {"Ok", "Err"} /\ ~finished(process_input))
        => internal = "Panic"

----------------------------------------------------------------------------
(* The session on an output that fails: it accepts sink_cap frames, from 0  *)
(* to MaxSinkFrames, and every write after them returns an error.           *)

\* frames the output accepts before it fails
MaxSinkFrames == 7

InitIO ==
    /\ pc = InitState.pc
    /\ internal = InitState.internal
    /\ ret = InitState.ret
    /\ flags = InitState.flags
    /\ waiting_for_blobs = InitState.waiting_for_blobs
    /\ req = InitState.req
    /\ process_input = InitState.process_input
    /\ process_output = InitState.process_output
    /\ out = InitState.out
    /\ sink_cap \in 0..MaxSinkFrames
    /\ input_end = InitState.input_end
    /\ hello = InitState.hello
    /\ offered = InitState.offered
    /\ seen = InitState.seen
    /\ closed = InitState.closed
    /\ calls = InitState.calls
    /\ call = InitState.call
    /\ payload = InitState.payload
    /\ consumed = InitState.consumed
    /\ codec = InitState.codec

SpecIO == InitIO /\ [][Next]_vars

\* C20 (as the claim states it): once process or get_scheduled has returned
\* and the server has left the request phase, also when the output failed
\* while the writer was flushed, the writer holds no buffered bytes (it was
\* released empty); so the only panic there is the assertion on the reader,
\* and a failure of the output has made communicate return an I/O error.
C20_WriterReleasedEmpty ==
    (HasCall /\ LastCall.op \in {"process", "get_scheduled"}
        /\ LastCall.ret \in {"Ok", "Err"})
        => /\ process_output.buffer.len = 0
           /\ internal = "Panic" => ~finished(process_input)

====
